---- MODULE Spec2Model ----
(***************************************************************************)
(* Model of pinToggler.h: a singleton that toggles a set of pins from the  *)
(* TIMER1 overflow interrupt.  The main program calls the static methods   *)
(* init<numPins>() and setFlashRate<numPins>(); the interrupt service      *)
(* routine runs doLoop() of the stored instance.                           *)
(*                                                                         *)
(* Arrays are functions over 0..numPins-1 so that indices are the code's.  *)
(* The main program is one sequential context (pc); the ISR preempts it    *)
(* between any two of its steps whenever TIMER1's overflow interrupt is    *)
(* enabled and the global interrupt flag is set.  The AVR clears the       *)
(* global interrupt flag on ISR entry and restores it on return, so the    *)
(* ISR runs to completion before anything else does: it is one action.     *)
(*                                                                         *)
(* Specifications: Spec is the program; SpecSteps is the program with      *)
(* setFlashRate and the ISR taken apart into their statements; SpecObs,    *)
(* SpecGap and SpecTwin are the program composed with an observer each     *)
(* (a window of ticks, the gaps between toggles, a second run).            *)
(***************************************************************************)
EXTENDS Integers, Sequences, FiniteSets, TLC

\* ---- bounds of the model ----
\* Template instantiations pinToggler<1> .. pinToggler<MaxPins> exist.
MaxPins == 2
\* Number of calls (init or setFlashRate) the main program makes.
MaxCalls == 3

\* ---- constants of the program ----
OFF == 0
SLOW == 1
MEDIUM == 2
FAST == 4
MAX == 8
FLASHRATE == {OFF, SLOW, MEDIUM, FAST, MAX}

NULL == 0
LOW == 0
HIGH == 1

\* Template parameters the program instantiates.
Shapes == 1..MaxPins
\* Physical pin numbers (uint8_t); one more than the largest shape, so that
\* the array handed to init() is a choice and not a permutation only.
Pins == 0..MaxPins
\* Indices a caller may hand to setFlashRate (size_t), in and out of range.
Indices == 0..MaxPins

\* The arrays of N distinct pins a caller passes to init<N>(): the pins
\* 0..N-1 in ascending order, or the pins N..1 in descending order.
PinArrays(N) == {[i \in 0..(N-1) |-> i], [i \in 0..(N-1) |-> N - i]}

\* A zero-initialised member array of numPins bytes ( = {0} ).
ZeroArray(N) == [i \in 0..(N-1) |-> 0]

\* uint8_t addition of line 154.
AddU8(c, a) == (c + a) % 256

\* Mutant of Wraps: follows the comment "greater than 8" instead of the code.
WrapsGreater(c) == c > 8

\* Mutant of Wraps: the test is dropped, every loop cycle toggles.
WrapsAlways(c) == TRUE
\* (mutant: the threshold is one too low)
WrapsAtSeven(c) == c >= 7

\* The ceiling of the counters, line 157.
PHASE_MAX == 8

\* The test of line 157.
Wraps(c) == c >= PHASE_MAX

\* Mutant of InitialLevel: the pins are driven high by setupSingleton.
InitialLevelHigh == HIGH

\* The level setupSingleton writes to every pin, line 116.
InitialLevel == LOW

\* Mutant of AlreadyLive: the test of line 169 is missing.
AlreadyLiveNever(inst) == FALSE

\* The test of line 169.
AlreadyLive(inst) == NULL # inst

\* Mutant of CheckArgs: the test of the instance is missing.
CheckArgsNoNull(inst, n, M, LED) ==
  IF n # M THEN -2 ELSE IF LED >= M THEN -3 ELSE 0

\* Mutant of CheckArgs: the index is tested before the template type.
CheckArgsIndexFirst(inst, n, M, LED) ==
  IF inst = NULL THEN -1 ELSE IF LED >= M THEN -3 ELSE IF n # M THEN -2 ELSE 0

\* Mutant of CheckArgs: the index test is off by one.
CheckArgsOffByOne(inst, n, M, LED) ==
  IF inst = NULL THEN -1 ELSE IF n # M THEN -2 ELSE IF LED > M THEN -3 ELSE 0

\* The result of setFlashRate<M>(LED, rate) on instance inst whose
\* numDerivedPins() is n: the tests of lines 186-195 and the return of 203.
CheckArgs(inst, n, M, LED) ==
  IF inst = NULL THEN -1 ELSE IF n # M THEN -2 ELSE IF LED >= M THEN -3 ELSE 0

\* Mutant of StoreRate: the rate is stored in slot 0 whatever the index.
StoreRateFirst(add, LED, rate) == [add EXCEPT ![0] = rate]

\* The store of line 201.
\* (mutant: the rate is added to the stored one)
StoreRateAccumulate(add, LED, rate) == [add EXCEPT ![LED] = AddU8(@, rate)]

StoreRate(add, LED, rate) == [add EXCEPT ![LED] = rate]

\* (mutant: the pin is driven HIGH instead of being inverted)
InvertToHigh(l) == HIGH

\* digitalRead(pin) ^ 1 of line 159.
Invert(l) == IF l = LOW THEN HIGH ELSE LOW

\* What init() can hand back when control flows off its end without a return
\* statement: the value is whatever the return register holds.
UBReturnValues == {-1, 0, 1}

\* The frame of a function that has returned: only the name of the function
\* is remembered, the arguments and locals are gone.
Returned(f) == [fn |-> f]

\* No call has been made yet.
NoFrame == Returned("none")

\* The observer of a window of ticks is idle.
NoObs == [slot |-> -1, ticks |-> 0, toggles |-> 0]

\* The observer of the gaps between toggles is idle.
NoGap == [slot |-> -1]

\* The second run has not started.
NoTwin == [slot |-> -1]

\* The ISR is not executing.
IDLE == -1

VARIABLES
  pc,              \* position of the main program
  frame,           \* the call of the main program: arguments and locals while
                   \* it executes, the name of the function after its return
  ret,             \* value the last returned call returned
  calls,           \* number of calls made by the main program
  heap,            \* number of pinToggler objects allocated by new
  _instance,       \* pinTogglerBase::_instance: NULL or an object
  numDerivedPins,  \* numDerivedPins() of the allocated object
  _LED_Pins,       \* pin assignments of the object
  _LED_count,      \* counters of the object
  _LED_add,        \* increments of the object
  level,           \* output level of every physical pin
  mode,            \* direction of every physical pin
  TCCR1A, TCCR1B,  \* TIMER1 control registers
  TOIE1,           \* TIMER1 overflow interrupt enable bit of TIMSK1
  SREG_I,          \* global interrupt enable flag
  isrI,            \* position of the ISR: IDLE, or the slot doLoop visits next
  obs,             \* observer: toggles of one slot's pin over a window of ticks
  everSet,         \* slots whose rate setFlashRate has set to a non-zero value
  repeated,        \* observer: the last setFlashRate call stored the rate that
                   \* the slot already had
  inForce,         \* observer: per slot, the rate of the last accepted
                   \* setFlashRate call that has returned
  gap,             \* observer: ticks between the toggles of one slot's pin
  twin             \* observer: a second run of the program, for comparison

vars == <<pc, frame, ret, calls, heap, _instance, numDerivedPins, _LED_Pins,
          _LED_count, _LED_add, level, mode, TCCR1A, TCCR1B, TOIE1, SREG_I,
          isrI, obs, everSet, repeated, inForce, gap, twin>>

\* The observers that the calls and the ticks of a specification drive: every
\* specification switches on the ones its properties read.
observers == <<repeated, inForce, gap, twin>>

\* The fields of the object.
object == <<heap, numDerivedPins, _LED_Pins, _LED_count, _LED_add>>
\* The hardware the library touches.
hardware == <<level, mode, TCCR1A, TCCR1B, TOIE1, SREG_I>>

Slots == 0..(numDerivedPins - 1)

Init ==
  /\ pc = "main"
  /\ frame = NoFrame
  /\ ret = 0
  /\ calls = 0
  /\ heap = 0
  /\ _instance = NULL
  /\ numDerivedPins = 0
  /\ _LED_Pins = ZeroArray(0)
  /\ _LED_count = ZeroArray(0)
  /\ _LED_add = ZeroArray(0)
  /\ level = [p \in Pins |-> LOW]
  /\ mode = [p \in Pins |-> "INPUT"]
  /\ TCCR1A \in {0, 1}
  /\ TCCR1B \in {0, 3}
  /\ TOIE1 = FALSE
  /\ SREG_I = TRUE
  /\ isrI = IDLE
  /\ obs = NoObs
  /\ everSet = {}
  /\ repeated = FALSE
  /\ inForce = [i \in Indices |-> OFF]
  /\ gap = NoGap
  /\ twin = NoTwin

\* ---- init<N>(LED_Pins), lines 167-180 ----

\* The call and the test of line 169.
InitCall(N, pins) ==
  /\ pc = "main" /\ calls < MaxCalls
  /\ calls' = calls + 1
  /\ IF AlreadyLive(_instance)
       THEN /\ frame' = Returned("init")
            /\ ret' = -1
            /\ pc' = "main"
       ELSE /\ frame' = [fn |-> "init", numPins |-> N, LED_Pins |-> pins,
                         singletonInstance |-> NULL, i |-> 0]
            /\ ret' = ret
            /\ pc' = "init_new"
  /\ UNCHANGED <<_instance, object, hardware, isrI, obs, everSet, observers>>

\* new pinToggler, line 173: the member arrays are zero-initialised.
InitNew ==
  /\ pc = "init_new"
  /\ heap' = heap + 1
  /\ numDerivedPins' = frame.numPins
  /\ _LED_Pins' = ZeroArray(frame.numPins)
  /\ _LED_count' = ZeroArray(frame.numPins)
  /\ _LED_add' = ZeroArray(frame.numPins)
  /\ frame' = [frame EXCEPT !.singletonInstance = heap + 1, !.i = 0]
  /\ pc' = "init_setup"
  /\ everSet' = {}
  /\ UNCHANGED <<ret, calls, _instance, hardware, isrI, obs, observers>>

\* One iteration of the loop of setupSingleton, lines 111-117.
SetupPin ==
  /\ pc = "init_setup"
  /\ LET i == frame.i
         p == frame.LED_Pins[i]
     IN /\ _LED_Pins' = [_LED_Pins EXCEPT ![i] = p]
        /\ mode' = [mode EXCEPT ![p] = "OUTPUT"]
        /\ level' = [level EXCEPT ![p] = InitialLevel]
        /\ frame' = [frame EXCEPT !.i = i + 1]
        /\ pc' = IF i + 1 < frame.numPins THEN "init_setup" ELSE "init_cli"
  /\ UNCHANGED <<ret, calls, heap, _instance, numDerivedPins, _LED_count,
                 _LED_add, TCCR1A, TCCR1B, TOIE1, SREG_I, isrI, obs, everSet,
                 observers>>

\* noInterrupts(), line 122.
SetupNoInterrupts ==
  /\ pc = "init_cli"
  /\ SREG_I' = FALSE
  /\ pc' = "init_timer"
  /\ UNCHANGED <<frame, ret, calls, _instance, object, level, mode, TCCR1A,
                 TCCR1B, TOIE1, isrI, obs, everSet, observers>>

\* The timer configuration, lines 123-135: CS12 | CS10 = 5.
SetupTimer ==
  /\ pc = "init_timer"
  /\ TCCR1A' = 0
  /\ TCCR1B' = 5
  /\ TOIE1' = TRUE
  /\ pc' = "init_sei"
  /\ UNCHANGED <<frame, ret, calls, _instance, object, level, mode, SREG_I,
                 isrI, obs, everSet, observers>>

\* interrupts(), line 138.
SetupInterrupts ==
  /\ pc = "init_sei"
  /\ SREG_I' = TRUE
  /\ pc' = "init_store"
  /\ UNCHANGED <<frame, ret, calls, _instance, object, level, mode, TCCR1A,
                 TCCR1B, TOIE1, isrI, obs, everSet, observers>>

\* _instance = singletonInstance, line 179.
InitStore ==
  /\ pc = "init_store"
  /\ _instance' = frame.singletonInstance
  /\ pc' = "init_ret"
  /\ UNCHANGED <<frame, ret, calls, object, hardware, isrI, obs, everSet,
                 observers>>

\* Line 180: control flows off the end of a function returning int.  This is
\* undefined behaviour: the caller gets whatever the return register holds,
\* or the function does not return to its caller at all.
InitReturn ==
  /\ pc = "init_ret"
  /\ \/ /\ ret' \in UBReturnValues
        /\ pc' = "main"
        /\ frame' = Returned("init")
     \/ /\ ret' = ret
        /\ pc' = "UB"
        /\ frame' = frame
  /\ UNCHANGED <<calls, _instance, object, hardware, isrI, obs, everSet,
                 observers>>

\* ---- setFlashRate<M>(LED, rate), lines 184-204 ----

\* A change of the rate of the observed slot ends the observer's window.
ObsAfterStore ==
  IF obs.slot # -1 /\ _LED_add'[obs.slot] # _LED_add[obs.slot] THEN NoObs ELSE obs

\* (mutant: an accepted call also restarts the cycle of the slot)
setFlashRateResetsPhase(M, LED, rate) ==
  /\ pc = "main" /\ calls < MaxCalls
  /\ calls' = calls + 1
  /\ frame' = Returned("setFlashRate")
  /\ pc' = "main"
  /\ ret' = CheckArgs(_instance, numDerivedPins, M, LED)
  /\ IF ret' = 0
       THEN /\ _LED_add' = StoreRate(_LED_add, LED, rate)
            /\ _LED_count' = [_LED_count EXCEPT ![LED] = 0]
            /\ obs' = ObsAfterStore
            /\ everSet' = IF rate # OFF THEN everSet \cup {LED} ELSE everSet
       ELSE UNCHANGED <<_LED_add, _LED_count, obs, everSet>>
  /\ UNCHANGED <<_instance, heap, numDerivedPins, _LED_Pins, hardware, isrI>>

\* The tests read only _instance and numDerivedPins(), which no ISR writes,
\* and the only write is the one-byte store of line 201: the call is one step.
setFlashRate(M, LED, rate) ==
  /\ pc = "main" /\ calls < MaxCalls
  /\ calls' = calls + 1
  /\ frame' = Returned("setFlashRate")
  /\ pc' = "main"
  /\ ret' = CheckArgs(_instance, numDerivedPins, M, LED)
  /\ IF ret' = 0
       THEN /\ _LED_add' = StoreRate(_LED_add, LED, rate)
            /\ obs' = ObsAfterStore
            /\ everSet' = IF rate # OFF THEN everSet \cup {LED} ELSE everSet
       ELSE UNCHANGED <<_LED_add, obs, everSet>>
  /\ UNCHANGED <<_instance, heap, numDerivedPins, _LED_Pins, _LED_count,
                 hardware, isrI>>

\* ---- ISR(TIMER1_OVF_vect), lines 213-220, and doLoop, lines 149-162 ----

\* The loop of doLoop from slot i on, lines 152-161, on the counters count and
\* the pin levels lvl: the counters and levels it leaves.
RECURSIVE doLoop(_, _, _)
doLoop(i, count, lvl) ==
  IF ~(i < numDerivedPins)
    THEN [count |-> count, level |-> lvl]
    ELSE LET sum == AddU8(count[i], _LED_add[i])
             p == _LED_Pins[i]
         IN IF Wraps(sum)
              THEN doLoop(i + 1, [count EXCEPT ![i] = 0],
                          [lvl EXCEPT ![p] = Invert(lvl[p])])
              ELSE doLoop(i + 1, [count EXCEPT ![i] = sum], lvl)

\* The observer may start a window with this tick as its first.
ObsAtTick ==
  IF obs.slot # -1 /\ obs.ticks < PHASE_MAX
    THEN {obs}
    ELSE {NoObs} \cup {[slot |-> s, ticks |-> 0, toggles |-> 0] : s \in Slots}

\* The observer o after a tick: the inverting writes of the tick to the pin
\* of the observed slot are counted (each slot is visited once by doLoop).
ObsAfterTick(o) ==
  IF o.slot = -1 THEN o
  ELSE [o EXCEPT
          !.ticks = @ + 1,
          !.toggles = @ + Cardinality({i \in Slots :
                             /\ _LED_Pins[i] = _LED_Pins[o.slot]
                             /\ Wraps(AddU8(_LED_count[i], _LED_add[i]))})]

\* TIMER1 overflows while its interrupt is enabled and interrupts are on: the
\* ISR reloads the counter (line 216) and calls instance()->doLoop() (line
\* 219).  With _instance still NULL that is a virtual call through a null
\* pointer, undefined behaviour: the program is lost, or the call happens to
\* return without effect.  observe: whether the observer may start a window.
Tick(observe) ==
  /\ TOIE1 /\ SREG_I /\ pc # "UB"
  /\ IF _instance = NULL
       THEN /\ \/ pc' = "UB"
               \/ pc' = pc
            /\ UNCHANGED <<_LED_count, level, obs>>
       ELSE /\ \E after \in {doLoop(0, _LED_count, level)} :
                 /\ _LED_count' = after.count
                 /\ level' = after.level
            /\ \E o \in (IF observe THEN ObsAtTick ELSE {obs}) :
                 obs' = ObsAfterTick(o)
            /\ pc' = pc
  /\ UNCHANGED <<frame, ret, calls, _instance, heap, numDerivedPins, _LED_Pins,
                 _LED_add, mode, TCCR1A, TCCR1B, TOIE1, SREG_I, isrI, everSet>>

\* ---- the same code, statement by statement ----
\* In the actions above a setFlashRate call and a run of the ISR are one step
\* each.  The actions below take them apart, so that a tick can fall between
\* two statements of setFlashRate and the ISR is seen slot by slot.

\* The CPU executes the main program: it is not in the ISR.
MainRuns == isrI = IDLE

\* The call and the tests of lines 186-195.
setFlashRateCall(M, LED, rate) ==
  /\ MainRuns
  /\ pc = "main" /\ calls < MaxCalls
  /\ calls' = calls + 1
  /\ \E code \in {CheckArgs(_instance, numDerivedPins, M, LED)} :
       IF code = 0
         THEN /\ frame' = [fn |-> "setFlashRate", LED |-> LED, rate |-> rate,
                           old |-> _LED_add[LED]]
              /\ ret' = ret
              /\ pc' = "set_store"
         ELSE /\ frame' = Returned("setFlashRate")
              /\ ret' = code
              /\ pc' = "main"
  /\ UNCHANGED <<_instance, object, hardware, isrI, obs, everSet, observers>>

\* The store of line 201.
setFlashRateStore ==
  /\ MainRuns
  /\ pc = "set_store"
  /\ _LED_add' = StoreRate(_LED_add, frame.LED, frame.rate)
  /\ everSet' = IF frame.rate # OFF THEN everSet \cup {frame.LED} ELSE everSet
  /\ pc' = "set_ret"
  /\ UNCHANGED <<frame, ret, calls, _instance, heap, numDerivedPins, _LED_Pins,
                 _LED_count, hardware, isrI, obs, observers>>

\* return 0, line 203.
setFlashRateReturn ==
  /\ MainRuns
  /\ pc = "set_ret"
  /\ ret' = 0
  /\ inForce' = [inForce EXCEPT ![frame.LED] = frame.rate]
  /\ frame' = Returned("setFlashRate")
  /\ pc' = "main"
  /\ UNCHANGED <<calls, _instance, object, hardware, isrI, obs, everSet,
                 repeated, gap, twin>>

\* (mutant: the handler is entered with interrupts left enabled)
ISREntryFlagNoBlock == TRUE

\* The global interrupt flag inside ISR(TIMER1_OVF_vect), line 213: the
\* hardware clears it when it enters the handler, and the handler, declared
\* without ISR_NOBLOCK, does not set it.
ISREntryFlag == FALSE

\* TIMER1 overflows while its interrupt is enabled and interrupts are on: the
\* handler is entered, lines 213-219.  With _instance NULL: as in Tick.
ISREnter ==
  /\ TOIE1 /\ SREG_I /\ pc # "UB"
  /\ IF _instance = NULL
       THEN /\ \/ pc' = "UB"
               \/ pc' = pc
            /\ UNCHANGED <<isrI, SREG_I>>
       ELSE /\ isrI' = 0
            /\ SREG_I' = ISREntryFlag
            /\ pc' = pc
  /\ UNCHANGED <<frame, ret, calls, _instance, object, level, mode, TCCR1A,
                 TCCR1B, TOIE1, obs, everSet, observers>>

\* (mutant: every slot is advanced by the increment of slot 0)
doLoopBodyWrongRate(i, count, lvl) ==
  LET sum == AddU8(count[i], _LED_add[0])
      p == _LED_Pins[i]
  IN IF Wraps(sum)
       THEN [count |-> [count EXCEPT ![i] = 0],
             level |-> [lvl EXCEPT ![p] = Invert(lvl[p])]]
       ELSE [count |-> [count EXCEPT ![i] = sum], level |-> lvl]

\* One iteration of the loop of doLoop, lines 154-160, for slot i, on the
\* counters count and the pin levels lvl.
doLoopBody(i, count, lvl) ==
  LET sum == AddU8(count[i], _LED_add[i])
      p == _LED_Pins[i]
  IN IF Wraps(sum)
       THEN [count |-> [count EXCEPT ![i] = 0],
             level |-> [lvl EXCEPT ![p] = Invert(lvl[p])]]
       ELSE [count |-> [count EXCEPT ![i] = sum], level |-> lvl]

\* The ISR executes one iteration of the loop of doLoop.
doLoopStep ==
  /\ isrI # IDLE /\ isrI < numDerivedPins
  /\ \E after \in {doLoopBody(isrI, _LED_count, level)} :
       /\ _LED_count' = after.count
       /\ level' = after.level
  /\ isrI' = isrI + 1
  /\ UNCHANGED <<pc, frame, ret, calls, _instance, heap, numDerivedPins,
                 _LED_Pins, _LED_add, mode, TCCR1A, TCCR1B, TOIE1, SREG_I, obs,
                 everSet, observers>>

\* The loop of doLoop is left and the ISR returns, line 220: reti sets the
\* global interrupt flag.
ISRReturn ==
  /\ isrI # IDLE /\ ~(isrI < numDerivedPins)
  /\ isrI' = IDLE
  /\ SREG_I' = TRUE
  /\ UNCHANGED <<pc, frame, ret, calls, _instance, object, level, mode, TCCR1A,
                 TCCR1B, TOIE1, obs, everSet, observers>>

\* The call setFlashRate<M>(LED, rate) is accepted and stores the rate that the
\* slot has already.
IsRepeat(M, LED, rate) ==
  /\ _instance # NULL /\ M = numDerivedPins /\ LED < numDerivedPins
  /\ _LED_add[LED] = rate

\* (The guards of the calls are repeated in front of the choice of their
\* arguments, so that the arguments are enumerated only where a call is made.)
Next ==
  \/ /\ pc = "main" /\ calls < MaxCalls
     /\ \E N \in Shapes : \E pins \in PinArrays(N) : InitCall(N, pins)
  \/ InitNew
  \/ SetupPin
  \/ SetupNoInterrupts
  \/ SetupTimer
  \/ SetupInterrupts
  \/ InitStore
  \/ InitReturn
  \/ /\ pc = "main" /\ calls < MaxCalls
     /\ \E M \in Shapes : \E LED \in Indices : \E rate \in FLASHRATE :
          /\ setFlashRate(M, LED, rate)
          /\ repeated' = IsRepeat(M, LED, rate)
          /\ UNCHANGED <<inForce, gap, twin>>
  \/ Tick(FALSE) /\ UNCHANGED observers

Spec == Init /\ [][Next]_vars

\* The program with the observer of windows of ticks switched on.  Its main
\* program makes only the calls that are accepted: init while no instance
\* exists, setFlashRate with arguments that pass the tests of lines 186-195.
\* (A rejected call changes nothing but the value returned.)
NextObs ==
  \/ /\ pc = "main" /\ calls < MaxCalls /\ ~AlreadyLive(_instance)
     /\ \E N \in Shapes : \E pins \in PinArrays(N) : InitCall(N, pins)
  \/ InitNew
  \/ SetupPin
  \/ SetupNoInterrupts
  \/ SetupTimer
  \/ SetupInterrupts
  \/ InitStore
  \/ InitReturn
  \/ /\ pc = "main" /\ calls < MaxCalls
     /\ \E M \in Shapes : \E LED \in Indices : \E rate \in FLASHRATE :
          /\ CheckArgs(_instance, numDerivedPins, M, LED) = 0
          /\ setFlashRate(M, LED, rate)
          /\ UNCHANGED observers
  \/ Tick(TRUE) /\ UNCHANGED observers

SpecObs == Init /\ [][NextObs]_vars

\* ---- the observer of the gaps between the toggles of a pin ----

\* The observer may start with this tick as its first, on a slot whose rate
\* is not OFF, whatever the value of its counter.
GapAtTick ==
  IF gap.slot # -1
    THEN {gap}
    ELSE {NoGap} \cup {[slot |-> s, n |-> 0, seen |-> FALSE, firstAt |-> 0,
                          last |-> 0] :
                         s \in {i \in Slots : _LED_add[i] # OFF}}

\* The observer g after a tick.  n: ticks since the last toggle of the pin of
\* the observed slot (since the start, before the first toggle); seen: the
\* pin has toggled since the start.  When the tick toggles the pin, firstAt
\* is the number of this tick if this is the first toggle, and last is the
\* number of ticks since the toggle before if it is a later one; they are 0
\* in all other states.
GapAfterTick(g) ==
  IF g.slot = -1 THEN g
  ELSE IF Wraps(AddU8(_LED_count[g.slot], _LED_add[g.slot]))
    THEN [slot |-> g.slot, n |-> 0, seen |-> TRUE,
          firstAt |-> IF g.seen THEN 0 ELSE g.n + 1,
          last |-> IF g.seen THEN g.n + 1 ELSE 0]
    ELSE [slot |-> g.slot, n |-> IF g.n < PHASE_MAX THEN g.n + 1 ELSE g.n,
          seen |-> g.seen, firstAt |-> 0, last |-> 0]

\* A change of the rate of the observed slot ends the observation.
GapAfterStore ==
  IF gap.slot # -1 /\ _LED_add'[gap.slot] # _LED_add[gap.slot] THEN NoGap ELSE gap

\* The program with the observer of gaps switched on; its main program makes
\* only the calls that are accepted.
NextGap ==
  \/ /\ pc = "main" /\ calls < MaxCalls /\ ~AlreadyLive(_instance)
     /\ \E N \in Shapes : \E pins \in PinArrays(N) : InitCall(N, pins)
  \/ InitNew
  \/ SetupPin
  \/ SetupNoInterrupts
  \/ SetupTimer
  \/ SetupInterrupts
  \/ InitStore
  \/ InitReturn
  \/ /\ pc = "main" /\ calls < MaxCalls
     /\ \E M \in Shapes : \E LED \in Indices : \E rate \in FLASHRATE :
          /\ CheckArgs(_instance, numDerivedPins, M, LED) = 0
          /\ setFlashRate(M, LED, rate)
          /\ gap' = GapAfterStore
          /\ UNCHANGED <<repeated, inForce, twin>>
  \/ /\ Tick(FALSE)
     /\ \E g \in (IF _instance = NULL THEN {gap} ELSE GapAtTick) :
          gap' = GapAfterTick(g)
     /\ UNCHANGED <<repeated, inForce, twin>>

SpecGap == Init /\ [][NextGap]_vars

\* ---- the second run ----
\* Two runs of the program with the same init call, the same ticks and the
\* same setFlashRate calls on one slot, twin.slot.  The first run is the
\* program, with any calls on the other slots; the second run makes no call
\* on the other slots.  twin holds the counters, the increments and the pin
\* levels of the second run.  (The pin assignments are those of the common
\* init call.  Two runs that differ in any way in their calls on the other
\* slots are each compared with the same second run.)

\* doLoop from slot i on, lines 152-161, as a function of the increments add
\* too: the counters and levels it leaves.
RECURSIVE doLoopOn(_, _, _, _)
doLoopOn(i, count, add, lvl) ==
  IF ~(i < numDerivedPins)
    THEN [count |-> count, level |-> lvl]
    ELSE LET sum == AddU8(count[i], add[i])
             p == _LED_Pins[i]
         IN IF Wraps(sum)
              THEN doLoopOn(i + 1, [count EXCEPT ![i] = 0], add,
                            [lvl EXCEPT ![p] = Invert(lvl[p])])
              ELSE doLoopOn(i + 1, [count EXCEPT ![i] = sum], add, lvl)

\* The second run before a call: until the first setFlashRate call the runs
\* are the same (twin is idle), and any slot can be the common one.
TwinNow ==
  IF twin.slot # -1
    THEN {twin}
    ELSE {[slot |-> s, count |-> _LED_count, add |-> _LED_add, level |-> level] :
            s \in Slots}

\* The second run t after a tick.
TwinAfterTick(t) ==
  IF t.slot = -1 THEN t
  ELSE LET after == doLoopOn(0, t.count, t.add, t.level)
       IN [t EXCEPT !.count = after.count, !.level = after.level]

\* The second run t after the first run has called setFlashRate(LED, rate):
\* it has made the same call if the call is on the common slot, none if not.
TwinAfterStore(t, LED, rate) ==
  IF LED = t.slot THEN [t EXCEPT !.add = StoreRate(@, LED, rate)] ELSE t

\* The two runs side by side; their main programs make only the calls that
\* are accepted.
NextTwin ==
  \/ /\ pc = "main" /\ calls < MaxCalls /\ ~AlreadyLive(_instance)
     /\ \E N \in Shapes : \E pins \in PinArrays(N) : InitCall(N, pins)
  \/ InitNew
  \/ SetupPin
  \/ SetupNoInterrupts
  \/ SetupTimer
  \/ SetupInterrupts
  \/ InitStore
  \/ InitReturn
  \/ /\ pc = "main" /\ calls < MaxCalls
     /\ \E M \in Shapes : \E LED \in Indices : \E rate \in FLASHRATE :
          /\ CheckArgs(_instance, numDerivedPins, M, LED) = 0
          /\ setFlashRate(M, LED, rate)
          /\ \E t \in TwinNow : twin' = TwinAfterStore(t, LED, rate)
          /\ UNCHANGED <<repeated, inForce, gap>>
  \/ /\ Tick(FALSE)
     /\ twin' = IF _instance = NULL THEN twin ELSE TwinAfterTick(twin)
     /\ UNCHANGED <<repeated, inForce, gap>>

SpecTwin == Init /\ [][NextTwin]_vars

\* The program statement by statement.  The main program executes only
\* while the CPU is not in the ISR; it calls init while no instance exists (a
\* rejected init call is one step, the one it is in Next).
NextSteps ==
  \/ /\ MainRuns /\ pc = "main" /\ calls < MaxCalls /\ ~AlreadyLive(_instance)
     /\ \E N \in Shapes : \E pins \in PinArrays(N) : InitCall(N, pins)
  \/ MainRuns /\ InitNew
  \/ MainRuns /\ SetupPin
  \/ MainRuns /\ SetupNoInterrupts
  \/ MainRuns /\ SetupTimer
  \/ MainRuns /\ SetupInterrupts
  \/ MainRuns /\ InitStore
  \/ MainRuns /\ InitReturn
  \/ /\ MainRuns /\ pc = "main" /\ calls < MaxCalls
     /\ \E M \in Shapes : \E LED \in Indices : \E rate \in FLASHRATE :
          setFlashRateCall(M, LED, rate)
  \/ setFlashRateStore
  \/ setFlashRateReturn
  \/ ISREnter
  \/ doLoopStep
  \/ ISRReturn

SpecSteps == Init /\ [][NextSteps]_vars

\* ---- vocabulary of the properties ----

\* The step is the call of init by the main program.
IsInitCall == calls' = calls + 1 /\ frame'.fn = "init"

\* The step is a call of setFlashRate by the main program (the call returns
\* within the step).
IsSetRateCall ==
  pc = "main" /\ calls' = calls + 1 /\ frame'.fn = "setFlashRate"

\* The last call of the main program has returned and was a setFlashRate.
SetRateReturned == pc = "main" /\ frame.fn = "setFlashRate"

\* The pin slots of the live instance and the levels of the pins.
pinSlots == <<_LED_Pins, _LED_count, _LED_add, level, mode>>

\* The timer configuration.
timerConfig == <<TCCR1A, TCCR1B, TOIE1, SREG_I>>

C2_NoTickBeforeInstance ==
  [][Tick(FALSE) => (_instance # NULL /\ pc \in {"init_ret", "main"})]_vars

\* ---- C3 ----
\* C3: an init call made while an instance exists returns -1
\* (AlreadyInitialized) at once and changes nothing: not the instance, not a
\* pin slot, not a pin level or mode, not the timer configuration.
C3_SecondInitRejected ==
  [][(IsInitCall /\ _instance # NULL) =>
       /\ ret' = -1
       /\ pc' = "main"
       /\ UNCHANGED <<_instance, heap, numDerivedPins, pinSlots, timerConfig>>]_vars

\* An init call was rejected while a slot had a rate set and its pin HIGH.
C3_Witness ==
  /\ pc = "main" /\ frame.fn = "init" /\ calls >= 2
  /\ _instance # NULL /\ ret = -1
  /\ \E i \in Slots : _LED_add[i] # OFF /\ level[_LED_Pins[i]] = HIGH

\* ---- C4 ----
\* C4: the first init call, made when no instance exists, returns the success
\* code 0, which differs from the AlreadyInitialized code -1.
C4_FirstInitReturnsSuccess ==
  (pc = "main" /\ frame.fn = "init" /\ calls = 1) => (ret = 0 /\ ret # -1)

\* ---- C5 ----
\* The state the claim describes after init<N>(LED_Pins) that created object o.
C5_Post(N, LED_Pins, o) ==
  /\ _instance # NULL
  /\ _instance = o
  /\ numDerivedPins = N
  /\ \A i \in 0..(N - 1) :
       /\ _LED_Pins[i] = LED_Pins[i]
       /\ mode[LED_Pins[i]] = "OUTPUT"
       /\ level[LED_Pins[i]] = LOW
       /\ _LED_count[i] = 0
       /\ _LED_add[i] = OFF

\* C5: at the return of the init call that created the instance, slot i holds
\* the i-th pin passed, every such pin is an output at LOW, every counter and
\* every increment is 0, and _instance is the object created by the call.
C5_StateAfterInit ==
  [][(pc = "init_ret" /\ pc' = "main") =>
       \A N \in Shapes : \A P \in PinArrays(N) : \A o \in 1..MaxCalls :
         (/\ frame.numPins = N /\ frame.LED_Pins = P
          /\ frame.singletonInstance = o) => C5_Post(N, P, o)']_vars

\* init<2> has returned after being passed the descending array <<2, 1>>.
C5_Witness ==
  /\ pc = "main" /\ frame.fn = "init" /\ calls = 1
  /\ C5_Post(2, [i \in 0..1 |-> 2 - i], heap)

\* ---- C6 ----
\* (In C6 to C9 the implication "the step is the call setFlashRate<M>(LED,
\* rate) => the effect" is written "the effect \/ ~ the step is the call".)

\* C6: a setFlashRate<M>(LED, rate) call on a live instance with M equal to
\* its numPins and LED < numPins returns 0, stores the rate in _LED_add[LED]
\* and changes nothing else: no counter, no other increment, no pin
\* assignment, no pin level, not _instance.
C6_SetRateFrame ==
  [][IsSetRateCall =>
      \A M \in Shapes : \A LED \in Indices : \A rate \in FLASHRATE :
       (/\ _instance # NULL
        /\ M = numDerivedPins
        /\ LED < numDerivedPins) =>
         \/ /\ ret' = 0
            /\ _LED_add' = [_LED_add EXCEPT ![LED] = rate]
            /\ UNCHANGED <<_instance, heap, numDerivedPins, _LED_Pins,
                           _LED_count, level, mode, timerConfig>>
         \/ ~setFlashRate(M, LED, rate)]_vars

\* A setFlashRate call succeeded on a pinToggler<2>: slot 1 is at FAST with
\* its counter at 0, slot 0 is at SLOW with its counter in mid-cycle.
C6_Witness ==
  /\ SetRateReturned /\ ret = 0
  /\ numDerivedPins = 2
  /\ _LED_add[1] = FAST /\ _LED_count[1] = 0
  /\ _LED_add[0] = SLOW /\ _LED_count[0] # 0

\* ---- C7 ----
\* C7: a setFlashRate<M>(LED, rate) call on a live instance with M equal to
\* its numPins and LED >= numPins returns -3 (IndexOutOfRange) and changes no
\* pin slot and no pin level.
C7_IndexOutOfRange ==
  [][IsSetRateCall =>
      \A M \in Shapes : \A LED \in Indices : \A rate \in FLASHRATE :
       (/\ _instance # NULL
        /\ M = numDerivedPins
        /\ LED >= numDerivedPins) =>
         \/ /\ ret' = -3
            /\ UNCHANGED pinSlots
         \/ ~setFlashRate(M, LED, rate)]_vars

\* A setFlashRate call was rejected with -3 while a slot had a rate set.
C7_Witness ==
  /\ SetRateReturned /\ ret = -3
  /\ _instance # NULL
  /\ \E i \in Slots : _LED_add[i] # OFF

\* ---- C8 ----
\* C8: a setFlashRate<M>(LED, rate) call with M other than the live
\* instance's numPins returns -2 (ShapeMismatch) for every index and rate,
\* also for an index that is out of range for M, and changes no pin slot and
\* no pin level.
C8_ShapeMismatch ==
  [][IsSetRateCall =>
      \A M \in Shapes : \A LED \in Indices : \A rate \in FLASHRATE :
       (/\ _instance # NULL
        /\ M # numDerivedPins) =>
         \/ /\ ret' = -2
            /\ UNCHANGED pinSlots
         \/ ~setFlashRate(M, LED, rate)]_vars

\* A setFlashRate call was rejected with -2 by a live pinToggler<2> that had
\* a rate set.
C8_Witness ==
  /\ SetRateReturned /\ ret = -2
  /\ _instance # NULL
  /\ numDerivedPins = 2
  /\ \E i \in Slots : _LED_add[i] # OFF

\* ---- C9 ----
\* C9: a setFlashRate<M>(LED, rate) call made while no instance is stored
\* returns -1 (NotInitialized) for every M, index and rate, creates no
\* instance and touches no pin and no timer register.
C9_NotInitialized ==
  [][IsSetRateCall =>
      \A M \in Shapes : \A LED \in Indices : \A rate \in FLASHRATE :
       (_instance = NULL) =>
         \/ /\ ret' = -1
            /\ _instance' = NULL
            /\ UNCHANGED <<heap, numDerivedPins, pinSlots, timerConfig>>
         \/ ~setFlashRate(M, LED, rate)]_vars

\* A setFlashRate call was rejected with -1 and no instance exists.
C9_Witness ==
  /\ SetRateReturned /\ ret = -1
  /\ _instance = NULL /\ heap = 0

\* ---- C10 ----
\* C10: while the increment of slot i of the live instance is 0, no step
\* changes the level of its pin or its counter; and the pin of a slot whose
\* rate has never been set to a non-zero value is LOW, whatever ticks and
\* setFlashRate calls on other slots have happened.
C10_OffNeverToggles ==
  /\ [][\A i \in Slots :
          (_instance # NULL /\ _LED_add[i] = OFF) =>
            /\ level'[_LED_Pins[i]] = level[_LED_Pins[i]]
            /\ _LED_count'[i] = _LED_count[i]]_vars
  /\ [](\A i \in Slots :
          (_instance # NULL /\ i \notin everSet) =>
            /\ level[_LED_Pins[i]] = LOW
            /\ _LED_count[i] = 0)

\* Ticks have toggled the pin of slot i to HIGH and left its counter in
\* mid-cycle before it was switched to OFF, while slot j was never set: its
\* pin is LOW.
C10_Witness ==
  /\ _instance # NULL
  /\ \E i, j \in Slots :
       /\ _LED_add[i] = OFF /\ level[_LED_Pins[i]] = HIGH /\ _LED_count[i] # 0
       /\ j \notin everSet /\ level[_LED_Pins[j]] = LOW

\* ---- C11 ----
\* C11: an accepted setFlashRate call that passes the rate the slot has already
\* changes nothing that a tick reads or writes: no counter, no increment, no
\* pin assignment, no pin level, not the timer, not _instance.  The state after
\* the call is the state before it, so the counters and toggles that follow
\* are those that follow without the call, whenever between two ticks the
\* call is made and however often it is repeated.
C11_SetRateIdempotent ==
  [][IsSetRateCall =>
      \A M \in Shapes : \A LED \in Indices : \A rate \in FLASHRATE :
       (/\ _instance # NULL
        /\ M = numDerivedPins
        /\ LED < numDerivedPins
        /\ _LED_add[LED] = rate) =>
         \/ /\ ret' = 0
            /\ UNCHANGED <<_instance, object, hardware>>
         \/ ~setFlashRate(M, LED, rate)]_vars

\* The last call stored again the non-zero rate of a slot whose counter was
\* in mid-cycle and whose pin had been toggled to HIGH.
C11_Witness ==
  /\ SetRateReturned /\ ret = 0 /\ repeated
  /\ \E i \in Slots :
       /\ _LED_add[i] # OFF /\ _LED_count[i] # 0
       /\ level[_LED_Pins[i]] = HIGH

\* ---- C12 ----
\* C12: _instance is NULL until the store of the init call that created the
\* object, that store is the only step that changes it, and once it refers to
\* an object it refers to that object in every later state, whatever init and
\* setFlashRate calls and ticks follow; the program allocates one object.
C12_HandleSetOnce ==
  /\ [][_instance # NULL => _instance' = _instance]_vars
  /\ [][_instance' # _instance =>
          /\ pc = "init_store"
          /\ _instance = NULL
          /\ _instance' = frame.singletonInstance
          /\ _instance' # NULL]_vars
  /\ [](heap = 0 => _instance = NULL)
  /\ [](heap <= 1)

\* The instance is live after a setFlashRate call, ticks and a rejected
\* second init call.
C12_Witness ==
  /\ _instance # NULL /\ _instance = heap
  /\ pc = "main" /\ frame.fn = "init" /\ ret = -1 /\ calls = MaxCalls
  /\ \E i \in Slots : _LED_add[i] # OFF /\ _LED_count[i] # 0

\* ---- C15 ----
\* The step is a run of the ISR on the live instance (no other step leaves
\* both the position and the number of calls of the main program unchanged).
IsTick == pc' = pc /\ calls' = calls /\ _instance # NULL

C17_RateInSet ==
  _instance # NULL =>
    \A i \in Slots : _LED_add[i] \in {0, 1, 2, 4, 8} /\ _LED_add[i] <= 8

\* A slot is at MAX after a tick and a rejected setFlashRate call.
C17_Witness ==
  /\ SetRateReturned /\ ret # 0
  /\ _instance # NULL
  /\ \E i \in Slots : _LED_add[i] = MAX /\ level[_LED_Pins[i]] = HIGH

\* ---- C20 ----
\* C20: a tick leaves every increment and every pin assignment as it was; once
\* the object is constructed its counters are changed by ticks only and its
\* increments by setFlashRate calls that return 0 only; once the instance is
\* stored no step changes a pin assignment.
C20_SingleWriter ==
  /\ [][IsTick => UNCHANGED <<_LED_add, _LED_Pins>>]_vars
  /\ [][(pc # "init_new" /\ _LED_count' # _LED_count) =>
          (IsTick /\ TOIE1 /\ SREG_I)]_vars
  /\ [][(pc # "init_new" /\ _LED_add' # _LED_add) =>
          (IsSetRateCall /\ ret' = 0)]_vars
  /\ [][_instance # NULL => _LED_Pins' = _LED_Pins]_vars

\* The slots of a pinToggler<2> bound to the pins 2 and 1 after an accepted
\* call, ticks and a rejected call: slot 0 has an increment set, its counter
\* in mid-cycle and its pin toggled, slot 1 is as init left it.
C20_Witness ==
  /\ _instance # NULL /\ pc = "main" /\ calls = MaxCalls /\ ret # 0
  /\ numDerivedPins = 2
  /\ _LED_Pins = [i \in 0..1 |-> 2 - i]
  /\ _LED_add[0] # OFF /\ _LED_count[0] # 0 /\ level[_LED_Pins[0]] = HIGH
  /\ _LED_add[1] = OFF /\ _LED_count[1] = 0 /\ level[_LED_Pins[1]] = LOW

\* ---- C13 ----
\* The step is one iteration of doLoop by the ISR, for slot isrI.
IsLoopStep == isrI # IDLE /\ isrI' = isrI + 1

\* An accepted call setFlashRate(i, ...) is between its tests and its return.
InSetRate(i) == pc \in {"set_store", "set_ret"} /\ frame.LED = i

\* The step advances slot i by a: the sum of counter and a, reset to 0 with
\* the pin inverted when it is 8 or more.
AdvancesBy(i, a) ==
  LET s == _LED_count[i] + a
      p == _LED_Pins[i]
  IN IF s >= 8
       THEN _LED_count'[i] = 0 /\ level'[p] = 1 - level[p]
       ELSE _LED_count'[i] = s /\ level'[p] = level[p]

\* C13: however the ticks fall between the statements of an accepted call
\* setFlashRate(i, r): a tick during the call advances slot i by the rate the
\* slot had before the call or by r; no statement of the call changes a
\* counter or a pin level; and a tick while no call on slot i is in progress
\* advances slot i by the rate of the last call on slot i that returned.
C13_OldOrNewRate ==
  /\ [][(IsLoopStep /\ InSetRate(isrI)) =>
          (AdvancesBy(isrI, frame.old) \/ AdvancesBy(isrI, frame.rate))]_vars
  /\ [][(IsLoopStep /\ ~InSetRate(isrI)) =>
          AdvancesBy(isrI, inForce[isrI])]_vars
  /\ [][(pc' # pc /\ (pc \in {"set_store", "set_ret"}
                        \/ pc' \in {"set_store", "set_ret"})) =>
          UNCHANGED <<_LED_count, level>>]_vars

\* A tick has fallen between the store and the return of a call that changes
\* a slot from SLOW to FAST in mid-cycle, and has taken its counter to 7.
C13_Witness ==
  /\ pc = "set_ret" /\ isrI = numDerivedPins
  /\ frame.old = SLOW /\ frame.rate = FAST
  /\ _LED_count[frame.LED] = 7

\* ---- C14 ----
\* C14: while the ISR is in its loop the main program takes no step (no
\* statement of init or setFlashRate executes, no increment changes), the ISR
\* visits the slots in order and returns only after the last one, interrupts
\* stay disabled so that no second tick starts before it has returned, and
\* every statement of the main program executes between two runs of the ISR.
C14_TickAtomic ==
  /\ [][isrI # IDLE =>
          /\ UNCHANGED <<pc, frame, ret, calls, _instance, _LED_add, _LED_Pins>>
          /\ \/ isrI < numDerivedPins /\ isrI' = isrI + 1
             \/ isrI = numDerivedPins /\ isrI' = IDLE]_vars
  /\ [][(pc' # pc \/ calls' # calls \/ _LED_add' # _LED_add) =>
          (isrI = IDLE /\ isrI' = IDLE)]_vars
  /\ [](isrI # IDLE => ~SREG_I)

\* The ISR has interrupted a setFlashRate call before its store and has
\* advanced slot 0 of a pinToggler<2> but not yet slot 1.
C14_Witness ==
  /\ pc = "set_store" /\ isrI = 1 /\ numDerivedPins = 2
  /\ ~SREG_I
  /\ _LED_add[0] # OFF /\ _LED_count[0] # 0

C19_PinIndependence ==
  /\ twin.slot # -1 =>
       /\ twin.count[twin.slot] = _LED_count[twin.slot]
       /\ twin.add[twin.slot] = _LED_add[twin.slot]
       /\ twin.level[_LED_Pins[twin.slot]] = level[_LED_Pins[twin.slot]]
  /\ _instance # NULL =>
       doLoopOn(0, _LED_count, _LED_add, level) = doLoop(0, _LED_count, level)

\* The common slot has a rate set, its counter in mid-cycle and its pin
\* toggled, while another slot has a different rate, a different counter
\* value and a different pin level in the two runs: the first run has set
\* its rate.
C19_Witness ==
  /\ twin.slot # -1
  /\ _LED_add[twin.slot] # OFF /\ _LED_count[twin.slot] # 0
  /\ level[_LED_Pins[twin.slot]] = HIGH
  /\ \E j \in Slots \ {twin.slot} :
       /\ twin.add[j] # _LED_add[j]
       /\ twin.count[j] # _LED_count[j]
       /\ twin.level[_LED_Pins[j]] # level[_LED_Pins[j]]
====
